---- MODULE Spec2Model ----
(***************************************************************************)
(* Model of src/server.py: the HTTP/SSE session-bridging transport of the  *)
(* text-utilities MCP server.  GET /sse registers a queue under a fresh    *)
(* session id and streams it; POST /message looks the session up, runs the *)
(* body through handle_message and puts the response on the queue.         *)
(***************************************************************************)
EXTENDS Integers, Sequences, FiniteSets, TLC

\* ------------------------------------------------------------------ bounds
MaxSessions == 1      \* number of GET /sse connections opened in a run
MaxPosts == 2         \* number of POST /message requests issued in a run
MaxTextLen == 2       \* longest "text" argument of a tool call
MaxKeepalives == 1    \* keepalive ticks observed in a run, over all connections
MaxStoreIds == 4      \* session ids a store is built from when destroyed on its own
MaxDestroys == 2      \* times the destruction of one id is repeated

\* --------------------------------------------------------------- constants
MethodNotFound == -32601

\* ------------------------------------------------------------ value spaces
None == "None"
Chars == {"a", "B", " "}
Texts == UNION {[1..n -> Chars] : n \in 0..MaxTextLen}

\* TOOLS: the names of the tool catalog
TOOLS ==
  {"reverse_text", "uppercase_text", "lowercase_text",
   "word_count", "character_count", "shuffle_text"}

KnownMethods ==
  {"initialize", "notifications/initialized", "tools/list", "tools/call", "ping"}
MethodVals == KnownMethods \cup {"foo/bar", None}
IdVals == {None, "id1", "id2"}
NameVals == TOOLS \cup {"not_a_tool", None}

\* params of a message: absent, not an object, or an object with an optional
\* name and optional arguments; arguments absent, not an object, or an object
\* whose text is absent, a string (chars) or a number.
NoParams == [pkind |-> "absent", name |-> None, akind |-> "absent",
             tkind |-> "absent", text |-> <<>>]
BadParams == [NoParams EXCEPT !.pkind = "nondict"]
ParamVals ==
  {NoParams, BadParams}
  \cup {[NoParams EXCEPT !.pkind = "dict", !.name = n, !.akind = k] :
          n \in NameVals, k \in {"absent", "nondict"}}
  \cup {[NoParams EXCEPT !.pkind = "dict", !.name = n, !.akind = "dict",
                          !.tkind = k] :
          n \in NameVals, k \in {"absent", "nonstr"}}
  \cup {[pkind |-> "dict", name |-> n, akind |-> "dict", tkind |-> "str",
         text |-> t] : n \in NameVals, t \in Texts}

\* a parsed JSON object body: method, id (None when the key is absent), params
Messages == [method : MethodVals, id : IdVals, params : ParamVals]

\* ------------------------------------------------------- text capabilities
Upper(c) == CASE c = "a" -> "A" [] c = "b" -> "B" [] OTHER -> c
Lower(c) == CASE c = "A" -> "a" [] c = "B" -> "b" [] OTHER -> c

Reverse(t) == [i \in 1..Len(t) |-> t[Len(t) + 1 - i]]
UpperText(t) == [i \in 1..Len(t) |-> Upper(t[i])]
LowerText(t) == [i \in 1..Len(t) |-> Lower(t[i])]

\* len(text.split()): the number of maximal runs of non-space characters
WordCount(t) ==
  Cardinality({i \in 1..Len(t) : t[i] # " " /\ (i = 1 \/ t[i - 1] = " ")})

Perms(n) == {p \in [1..n -> 1..n] : \A i, j \in 1..n : p[i] = p[j] => i = j}
Shuffle(t, p) == [i \in 1..Len(t) |-> t[p[i]]]

Plural(count) == IF count # 1 THEN "s" ELSE ""

\* a Capability Result; raised marks an exception escaping the tool body
Content(prefix, chars, count, suffix, isError) ==
  [raised |-> FALSE, prefix |-> prefix, chars |-> chars, count |-> count,
   suffix |-> suffix, isError |-> isError]
NoContent == Content("", <<>>, -1, "", FALSE)
ToolRaise == [NoContent EXCEPT !.raised = TRUE]

\* handle_tool_call(name, arguments); perm is the outcome of random.shuffle
handle_tool_call(name, params, perm) ==
  IF params.akind = "nondict" THEN ToolRaise      \* arguments.get fails
  ELSE
    LET nonstr == params.akind = "dict" /\ params.tkind = "nonstr"
        text == IF params.akind = "dict" /\ params.tkind = "str"
                THEN params.text ELSE <<>>
    IN  CASE name = "reverse_text" ->
               IF nonstr THEN ToolRaise
               ELSE Content("Reversed text: ", Reverse(text), -1, "", FALSE)
          [] name = "uppercase_text" ->
               IF nonstr THEN ToolRaise
               ELSE Content("Uppercase: ", UpperText(text), -1, "", FALSE)
          [] name = "lowercase_text" ->
               IF nonstr THEN ToolRaise
               ELSE Content("Lowercase: ", LowerText(text), -1, "", FALSE)
          [] name = "word_count" ->
               IF nonstr THEN ToolRaise
               ELSE Content("Word count: ", <<>>, WordCount(text),
                            " word" \o Plural(WordCount(text)), FALSE)
          [] name = "character_count" ->
               IF nonstr THEN ToolRaise
               ELSE Content("Character count: ", <<>>, Len(text),
                            " character" \o Plural(Len(text)), FALSE)
          [] name = "shuffle_text" ->
               IF nonstr THEN ToolRaise
               ELSE Content("Shuffled text: ", Shuffle(text, perm), -1, "", FALSE)
          [] OTHER ->
               Content("Unknown tool: ", <<>>, -1, name, TRUE)

\* The outcome of handle_message: kind "none" is the return value None,
\* "result"/"error" a Response, "raise" an exception escaping the dispatcher.
Outcome(kind, id, rtype, content, code, method) ==
  [kind |-> kind, id |-> id, rtype |-> rtype, content |-> content,
   code |-> code, method |-> method]
NoResponse == Outcome("none", None, "", NoContent, 0, None)
Raised == Outcome("raise", None, "", NoContent, 0, None)

handle_message(message, perm) ==
  LET method == message.method
      msg_id == message.id
      params == message.params
  IN  CASE method = "initialize" ->
             Outcome("result", msg_id, "initialize", NoContent, 0, None)
        [] method = "notifications/initialized" -> NoResponse
        [] method = "tools/list" ->
             Outcome("result", msg_id, "tools", NoContent, 0, None)
        [] method = "tools/call" ->
             IF params.pkind = "nondict" THEN Raised      \* params.get fails
             ELSE LET result == handle_tool_call(params.name, params, perm)
                  IN  IF result.raised THEN Raised
                      ELSE Outcome("result", msg_id, "tool", result, 0, None)
        [] method = "ping" ->
             Outcome("result", msg_id, "empty", NoContent, 0, None)
        [] OTHER ->
             Outcome("error", msg_id, "", NoContent, MethodNotFound, method)

IsResponse(o) == o.kind \in {"result", "error"}

\* ------------------------------------------------------------- the server
SessionIds == 1..MaxSessions      \* the uuid4 values, in order of creation
PairSessions == {1, 2}            \* two connections side by side
Connections == SessionIds \cup PairSessions   \* every connection of a run
UnknownId == 0                    \* no session id (not a uuid4 value)
NoQueue == 0                      \* active_sessions.get(sessionId) is None
PostIds == 1..MaxPosts
MessagePath == "/message"

\* request bodies of POST /message: not JSON ("malformed"), or a JSON object
\* (a message)
Body(kind, msg) == [kind |-> kind, msg |-> msg]
NoMessage == [method |-> None, id |-> None, params |-> NoParams]
Msg(method, id, params) == [method |-> method, id |-> id, params |-> params]
ReverseAB ==
  [pkind |-> "dict", name |-> "reverse_text", akind |-> "dict",
   tkind |-> "str", text |-> <<"a", "B">>]
\* the messages posted in the server runs, one for each outcome of the try
\* block besides the parse failure: no Response, an error Response, a result
PostMessages ==
  {Msg("notifications/initialized", None, NoParams),
   Msg("foo/bar", None, NoParams),
   Msg("tools/call", "id2", ReverseAB)}
PostBodies ==
  {Body("malformed", NoMessage)} \cup {Body("object", m) : m \in PostMessages}

\* the HTTP response to a POST: status code and content; rpc is the RPC
\* result carried in the content (none on every path of message_endpoint)
Http(status, text, rpc) == [status |-> status, text |-> text, rpc |-> rpc]
NoHttp == Http(0, "", NoResponse)

\* events yielded by event_generator
Event(event, sessionId, data) ==
  [event |-> event, path |-> IF event = "endpoint" THEN MessagePath ELSE "",
   sessionId |-> sessionId, data |-> data]
EndpointEvent(s) == Event("endpoint", s, NoResponse)
MessageEvent(m) == Event("message", UnknownId, m)
KeepaliveEvent == Event("keepalive", UnknownId, NoResponse)

\* the body of the answer of GET /health
health(sessions) ==
  [status |-> "ok", tools |-> TOOLS,
   activeSessions |-> Cardinality(DOMAIN sessions)]
NoHealth == [status |-> "", tools |-> {}, activeSessions |-> -1]

IdlePost ==
  [pc |-> "idle", sessionId |-> UnknownId, message_queue |-> NoQueue,
   body |-> Body("malformed", NoMessage), response |-> NoResponse,
   queued |-> FALSE, http |-> NoHttp]

VARIABLES
  active_sessions,  \* the dict: session id -> queue (named by its creator)
  queue,            \* contents of the asyncio.Queue created by connection s
  stream,           \* position of connection s: none, created, check, wait,
                    \*   closed (finally ran), abandoned (generator never ran)
  disconnected,     \* the client of connection s has gone away
  emitted,          \* events yielded on connection s, in order
  enqueued,         \* responses put on queue s, in order (history)
  post,             \* the POST /message requests
  d_msg,            \* the message handed to the dispatcher on its own
  d_out,            \* what handle_message made of d_msg
  d_done,           \* handle_message has been applied to d_msg
  store_before,     \* the store before a session is destroyed on its own
  destroyed_id,     \* the session id that is destroyed
  destroy_calls,    \* how many times it has been destroyed
  destroy_raised,   \* a destruction has raised
  health_body       \* the body of the last answer of GET /health

vars ==
  <<active_sessions, queue, stream, disconnected, emitted, enqueued, post,
    d_msg, d_out, d_done,
    store_before, destroyed_id, destroy_calls, destroy_raised, health_body>>
serverVars ==
  <<active_sessions, queue, stream, disconnected, emitted, enqueued, post>>
dispatchVars == <<d_msg, d_out, d_done>>
destroyVars == <<store_before, destroyed_id, destroy_calls, destroy_raised>>
\* the variables that no step of a stream or of an intake request writes:
\* those of the functions run on their own and the answer of GET /health
unitVars == <<dispatchVars, destroyVars, health_body>>

Registered == DOMAIN active_sessions
Streaming(s) == stream[s] \in {"check", "wait"}
Keepalives(s) == Len(SelectSeq(emitted[s], LAMBDA e : e.event = "keepalive"))
TotalKeepalives ==
  Cardinality(UNION {{<<s, i>> : i \in {j \in 1..Len(emitted[s]) :
                                          emitted[s][j].event = "keepalive"}} :
                     s \in Connections})
Messages_of(evs) == SelectSeq(evs, LAMBDA e : e.event = "message")
MessagesEmitted(s) ==
  [i \in 1..Len(Messages_of(emitted[s])) |-> Messages_of(emitted[s])[i].data]

ServerInit ==
  /\ active_sessions = <<>>
  /\ queue = [s \in Connections |-> <<>>]
  /\ stream = [s \in Connections |-> "none"]
  /\ disconnected = [s \in Connections |-> FALSE]
  /\ emitted = [s \in Connections |-> <<>>]
  /\ enqueued = [s \in Connections |-> <<>>]
  /\ post = [r \in PostIds |-> IdlePost]

\* no handler is between building its HTTP response and returning it (there
\* is no await between the two, so no other task runs in between)
NoReturnPending == \A r \in PostIds : post[r].pc # "done"

\* del active_sessions[session_id], guarded by membership (the finally block)
Cleanup(sessions, s) ==
  IF s \in DOMAIN sessions
  THEN [t \in DOMAIN sessions \ {s} |-> sessions[t]]
  ELSE sessions

\* the del statement raises KeyError for a key that is not in the dict
DelRaises(sessions, s) == s \notin DOMAIN sessions

\* a finally block that deletes without asking whether the id is there
CleanupRaisesUnguarded(sessions, s) == DelRaises(sessions, s)

\* the finally block raises: the del is reached and raises
CleanupRaises(sessions, s) == s \in DOMAIN sessions /\ DelRaises(sessions, s)

\* GET /sse up to the return of the EventSourceResponse: a fresh id, a new
\* queue, the registration.  The generator has not run yet.
SseOpen(s) ==
  /\ NoReturnPending
  /\ stream[s] = "none"
  /\ \A t \in Connections : t < s => stream[t] # "none"
  /\ active_sessions' =
       [t \in DOMAIN active_sessions \cup {s} |->
          IF t = s THEN s ELSE active_sessions[t]]
  /\ queue' = [queue EXCEPT ![s] = <<>>]
  /\ stream' = [stream EXCEPT ![s] = "created"]
  /\ UNCHANGED <<disconnected, emitted, enqueued, post>>
  /\ UNCHANGED unitVars

\* a generator that drains what is already waiting before it announces the
\* endpoint
GenStartDrainFirst(s) ==
  /\ NoReturnPending
  /\ stream[s] = "created"
  /\ IF queue[s] # <<>>
     THEN /\ emitted' = [emitted EXCEPT ![s] =
                 Append(Append(@, MessageEvent(Head(queue[s]))),
                        EndpointEvent(s))]
          /\ queue' = [queue EXCEPT ![s] = Tail(@)]
     ELSE /\ emitted' = [emitted EXCEPT ![s] = Append(@, EndpointEvent(s))]
          /\ UNCHANGED queue
  /\ stream' = [stream EXCEPT ![s] = "check"]
  /\ UNCHANGED <<active_sessions, disconnected, enqueued, post>>
  /\ UNCHANGED unitVars

\* first step of event_generator: the endpoint event
GenStart(s) ==
  /\ NoReturnPending
  /\ stream[s] = "created"
  /\ emitted' = [emitted EXCEPT ![s] = Append(@, EndpointEvent(s))]
  /\ stream' = [stream EXCEPT ![s] = "check"]
  /\ UNCHANGED <<active_sessions, queue, disconnected, enqueued, post>>
  /\ UNCHANGED unitVars

\* the response is dropped before its body iterator is started: the
\* generator body, and with it the finally block, never runs
Abandon(s) ==
  /\ NoReturnPending
  /\ stream[s] = "created"
  /\ disconnected[s]
  /\ stream' = [stream EXCEPT ![s] = "abandoned"]
  /\ UNCHANGED <<active_sessions, queue, disconnected, emitted, enqueued,
                 post>>
  /\ UNCHANGED unitVars

\* top of the loop: request.is_disconnected(); break runs the finally block
CheckDisconnect(s) ==
  /\ NoReturnPending
  /\ stream[s] = "check"
  /\ IF disconnected[s]
     THEN /\ stream' = [stream EXCEPT ![s] = "closed"]
          /\ active_sessions' = Cleanup(active_sessions, s)
     ELSE /\ stream' = [stream EXCEPT ![s] = "wait"]
          /\ UNCHANGED active_sessions
  /\ UNCHANGED <<queue, disconnected, emitted, enqueued, post>>
  /\ UNCHANGED unitVars

\* a queue that hands out its newest item first
QueueGetLifo(q) == [item |-> q[Len(q)], rest |-> SubSeq(q, 1, Len(q) - 1)]

\* a get that hands out the oldest item and leaves it in the queue
QueueGetPeek(q) == [item |-> Head(q), rest |-> q]

\* message_queue.get() on a non-empty asyncio.Queue: the oldest item
QueueGet(q) == [item |-> Head(q), rest |-> Tail(q)]

\* wait_for(message_queue.get()) returns an item; it is yielded
DrainMessage(s) ==
  /\ NoReturnPending
  /\ stream[s] = "wait"
  /\ queue[s] # <<>>
  /\ emitted' = [emitted EXCEPT ![s] =
                   Append(@, MessageEvent(QueueGet(queue[s]).item))]
  /\ queue' = [queue EXCEPT ![s] = QueueGet(queue[s]).rest]
  /\ stream' = [stream EXCEPT ![s] = "check"]
  /\ UNCHANGED <<active_sessions, disconnected, enqueued, post>>
  /\ UNCHANGED unitVars

\* a keepalive tick that gives up on the idle session
KeepaliveTickTeardown(s) ==
  /\ NoReturnPending
  /\ stream[s] = "wait"
  /\ queue[s] = <<>>
  /\ TotalKeepalives < MaxKeepalives
  /\ emitted' = [emitted EXCEPT ![s] = Append(@, KeepaliveEvent)]
  /\ stream' = [stream EXCEPT ![s] = "closed"]
  /\ active_sessions' = Cleanup(active_sessions, s)
  /\ UNCHANGED <<queue, disconnected, enqueued, post>>
  /\ UNCHANGED unitVars

\* wait_for times out on an empty queue: the keepalive comment
KeepaliveTick(s) ==
  /\ NoReturnPending
  /\ stream[s] = "wait"
  /\ queue[s] = <<>>
  /\ TotalKeepalives < MaxKeepalives
  /\ emitted' = [emitted EXCEPT ![s] = Append(@, KeepaliveEvent)]
  /\ stream' = [stream EXCEPT ![s] = "check"]
  /\ UNCHANGED <<active_sessions, queue, disconnected, enqueued, post>>
  /\ UNCHANGED unitVars

\* the generator is cancelled, or an exception is thrown into it, where it
\* is suspended (a yield, is_disconnected or wait_for): the finally block
StreamCancel(s) ==
  /\ NoReturnPending
  /\ Streaming(s)
  /\ disconnected[s]
  /\ stream' = [stream EXCEPT ![s] = "closed"]
  /\ active_sessions' = Cleanup(active_sessions, s)
  /\ UNCHANGED <<queue, disconnected, emitted, enqueued, post>>
  /\ UNCHANGED unitVars

\* the client closes the connection (or a write to it starts failing)
ClientDisconnect(s) ==
  /\ NoReturnPending
  /\ stream[s] \in {"created", "check", "wait"}
  /\ ~disconnected[s]
  /\ disconnected' = [disconnected EXCEPT ![s] = TRUE]
  /\ UNCHANGED <<active_sessions, queue, stream, emitted, enqueued, post>>
  /\ UNCHANGED unitVars

\* a lookup that finds a queue under every id
LookupAny(sessions, sessionId) == sessionId

\* active_sessions.get(sessionId)
Lookup(sessions, sessionId) ==
  IF sessionId \in DOMAIN sessions THEN sessions[sessionId] ELSE NoQueue

\* POST /message up to the await of the body: the lookup and the 400
PostLookup(r, sessionId) ==
  /\ NoReturnPending
  /\ post[r].pc = "idle"
  /\ \A q \in PostIds : q < r => post[q].pc # "idle"
  /\ LET message_queue == Lookup(active_sessions, sessionId)
     IN  post' = [post EXCEPT ![r] =
           IF message_queue = NoQueue
           THEN [@ EXCEPT !.pc = "done", !.sessionId = sessionId,
                          !.http = Http(400, "No active session found",
                                        NoResponse)]
           ELSE [@ EXCEPT !.pc = "body", !.sessionId = sessionId,
                          !.message_queue = message_queue]]
  /\ UNCHANGED <<active_sessions, queue, stream, disconnected, emitted,
                 enqueued>>
  /\ UNCHANGED unitVars

\* a try block that reports a body it cannot parse on the stream, as a
\* JSON-RPC parse error
TryOutcomeParseError(body, perm) ==
  IF body.kind = "object" THEN handle_message(body.msg, perm)
  ELSE Outcome("error", None, "", NoContent, -32700, None)

\* the outcome of the try block for one body: the dispatcher's outcome, or
\* Raised when request.json() or handle_message raises
TryOutcome(body, perm) ==
  IF body.kind = "object" THEN handle_message(body.msg, perm) ELSE Raised

\* an acknowledgement that carries the dispatcher's response
AckWithResult(response) ==
  IF response.kind = "raise"
  THEN Http(500, "error", NoResponse)
  ELSE Http(202, "Accepted", response)

\* an acknowledgement that turns a protocol error into an HTTP error
AckErrorAsHttp(response) ==
  CASE response.kind = "raise" -> Http(500, "error", NoResponse)
    [] response.kind = "error" -> Http(400, "Method not found", NoResponse)
    [] OTHER -> Http(202, "Accepted", NoResponse)

\* the HTTP response of the try block
AckFor(response) ==
  IF response.kind = "raise"
  THEN Http(500, "error", NoResponse)
  ELSE Http(202, "Accepted", NoResponse)

\* a put that overwrites what is waiting
PutReplace(queues, q, response) == [queues EXCEPT ![q] = <<response>>]

\* a put that drops the item when something is already waiting
PutDropFull(queues, q, response) ==
  IF queues[q] = <<>> THEN [queues EXCEPT ![q] = <<response>>] ELSE queues

\* message_queue.put(response) on the queue object q
Put(queues, q, response) == [queues EXCEPT ![q] = Append(@, response)]

\* a handler that looks the session up again before it puts
PostHandleRelookup(r, body, perm) ==
  /\ NoReturnPending
  /\ post[r].pc = "body"
  /\ LET q == post[r].message_queue
         gone == q \notin DOMAIN active_sessions
         response == IF gone THEN Raised ELSE TryOutcome(body, perm)
     IN  /\ post' = [post EXCEPT ![r] =
                [@ EXCEPT !.pc = "done", !.body = body,
                          !.response = response,
                          !.queued = IsResponse(response),
                          !.http = AckFor(response)]]
         /\ IF IsResponse(response)
            THEN /\ queue' = Put(queue, q, response)
                 /\ enqueued' = [enqueued EXCEPT ![q] = Append(@, response)]
            ELSE UNCHANGED <<queue, enqueued>>
  /\ UNCHANGED <<active_sessions, stream, disconnected, emitted>>
  /\ UNCHANGED unitVars

\* a handler that gives up the session when the request fails
PostHandleDropsSession(r, body, perm) ==
  /\ NoReturnPending
  /\ post[r].pc = "body"
  /\ LET response == TryOutcome(body, perm)
         q == post[r].message_queue
     IN  /\ post' = [post EXCEPT ![r] =
                [@ EXCEPT !.pc = "done", !.body = body,
                          !.response = response,
                          !.queued = IsResponse(response),
                          !.http = AckFor(response)]]
         /\ IF IsResponse(response)
            THEN /\ queue' = Put(queue, q, response)
                 /\ enqueued' = [enqueued EXCEPT ![q] = Append(@, response)]
            ELSE UNCHANGED <<queue, enqueued>>
         /\ active_sessions' =
              IF response.kind = "raise"
              THEN Cleanup(active_sessions, post[r].sessionId)
              ELSE active_sessions
  /\ UNCHANGED <<stream, disconnected, emitted>>
  /\ UNCHANGED unitVars

\* the rest of POST /message: parse, dispatch, put, acknowledge
PostHandle(r, body, perm) ==
  /\ NoReturnPending
  /\ post[r].pc = "body"
  /\ LET response == TryOutcome(body, perm)
         q == post[r].message_queue
     IN  /\ post' = [post EXCEPT ![r] =
                [@ EXCEPT !.pc = "done", !.body = body,
                          !.response = response,
                          !.queued = IsResponse(response),
                          !.http = AckFor(response)]]
         /\ IF IsResponse(response)
            THEN /\ queue' = Put(queue, q, response)
                 /\ enqueued' = [enqueued EXCEPT ![q] = Append(@, response)]
            ELSE UNCHANGED <<queue, enqueued>>
  /\ UNCHANGED <<active_sessions, stream, disconnected, emitted>>
  /\ UNCHANGED unitVars

PermsFor(body) == Perms(Len(body.msg.params.text))

\* the handler returns: the HTTP response leaves the server and the request
\* is over; all that is kept of it is whether it was answered with 500
PostReturn(r) ==
  /\ post[r].pc = "done"
  /\ post' = [post EXCEPT ![r] =
       [IdlePost EXCEPT !.pc = IF post[r].http.status = 500
                                THEN "failed" ELSE "returned"]]
  /\ UNCHANGED <<active_sessions, queue, stream, disconnected, emitted,
                 enqueued>>
  /\ UNCHANGED unitVars

\* the steps of the server with the connections and session ids of S
ServerNextOn(S) ==
  \/ \E s \in S : SseOpen(s)
  \/ \E s \in S : GenStart(s)
  \/ \E s \in S : Abandon(s)
  \/ \E s \in S : CheckDisconnect(s)
  \/ \E s \in S : DrainMessage(s)
  \/ \E s \in S : KeepaliveTick(s)
  \/ \E s \in S : StreamCancel(s)
  \/ \E s \in S : ClientDisconnect(s)
  \/ \E r \in PostIds, sid \in S : PostLookup(r, sid)
  \/ \E r \in PostIds, body \in PostBodies :
       \E perm \in PermsFor(body) : PostHandle(r, body, perm)
  \/ \E r \in PostIds : PostReturn(r)

ServerNext == ServerNextOn(SessionIds)

\* nothing is destroyed on its own
NoDestroy ==
  /\ store_before = <<>>
  /\ destroyed_id = UnknownId
  /\ destroy_calls = 0
  /\ destroy_raised = FALSE

Init ==
  /\ ServerInit
  /\ d_msg = NoMessage
  /\ d_out = NoResponse
  /\ d_done = TRUE
  /\ NoDestroy
  /\ health_body = NoHealth

Next == ServerNext

Spec == Init /\ [][Next]_vars

\* The liveness of delivery is followed on one connection and the requests
\* addressed to it: a stream loop reads no state of another connection.
FairSessions == {1}

FairNext == ServerNextOn(FairSessions)

\* the stream loop of a connection is scheduled fairly: the generator is
\* started and resumed, the poll and the wait return; a handler that has
\* built its HTTP response returns it
Fairness ==
  /\ \A s \in FairSessions :
       /\ WF_vars(GenStart(s))
       /\ WF_vars(CheckDisconnect(s))
       /\ WF_vars(DrainMessage(s))
       /\ WF_vars(KeepaliveTick(s))
  /\ \A r \in PostIds : WF_vars(PostReturn(r))

FairSpec == Init /\ [][FairNext]_vars /\ Fairness

\* GET /health: the answer is built from the store, nothing is written
Health ==
  /\ NoReturnPending
  /\ health_body' = health(active_sessions)
  /\ UNCHANGED serverVars
  /\ UNCHANGED <<dispatchVars, destroyVars>>

\* the server with its health endpoint polled at any moment
HealthNext == ServerNextOn(SessionIds) \/ Health

HealthSpec == Init /\ [][HealthNext]_vars

\* Two connections and the requests addressed to either of them
PairNext == ServerNextOn(PairSessions)

PairSpec == Init /\ [][PairNext]_vars

\* ------------------------------------------- the dispatcher on its own
DispatchInit ==
  /\ ServerInit
  /\ d_msg \in Messages
  /\ d_out = NoResponse
  /\ d_done = FALSE
  /\ NoDestroy
  /\ health_body = NoHealth

Dispatch ==
  /\ ~d_done
  /\ \E perm \in Perms(Len(d_msg.params.text)) :
       d_out' = handle_message(d_msg, perm)
  /\ d_done' = TRUE
  /\ UNCHANGED d_msg
  /\ UNCHANGED serverVars
  /\ UNCHANGED <<destroyVars, health_body>>

DispatchNext == Dispatch

DispatchSpec == DispatchInit /\ [][DispatchNext]_vars

\* ------------------------------------- session destruction on its own
StoreIds == 1..MaxStoreIds
\* the stores the server can hold: some ids, each bound to its own queue
Stores == {[t \in S |-> t] : S \in SUBSET StoreIds}

DestroyInit ==
  /\ active_sessions \in Stores
  /\ queue = [s \in Connections |-> <<>>]
  /\ stream = [s \in Connections |-> "none"]
  /\ disconnected = [s \in Connections |-> FALSE]
  /\ emitted = [s \in Connections |-> <<>>]
  /\ enqueued = [s \in Connections |-> <<>>]
  /\ post = [r \in PostIds |-> IdlePost]
  /\ d_msg = NoMessage
  /\ d_out = NoResponse
  /\ d_done = TRUE
  /\ store_before = active_sessions
  /\ destroyed_id \in StoreIds \cup {UnknownId}
  /\ destroy_calls = 0
  /\ destroy_raised = FALSE
  /\ health_body = NoHealth

\* the finally block of event_generator, run for destroyed_id
Destroy ==
  /\ destroy_calls < MaxDestroys
  /\ ~destroy_raised
  /\ destroy_raised' = CleanupRaises(active_sessions, destroyed_id)
  /\ active_sessions' = Cleanup(active_sessions, destroyed_id)
  /\ destroy_calls' = destroy_calls + 1
  /\ UNCHANGED <<queue, stream, disconnected, emitted, enqueued, post>>
  /\ UNCHANGED <<store_before, destroyed_id, health_body>>
  /\ UNCHANGED dispatchVars

DestroyNext == Destroy

DestroySpec == DestroyInit /\ [][DestroyNext]_vars

TypeOK ==
  /\ DOMAIN active_sessions \subseteq Connections
  /\ \A s \in Connections :
       stream[s] \in {"none", "created", "check", "wait", "closed", "abandoned"}
  /\ \A r \in PostIds : post[r].pc \in {"idle", "body", "done", "returned", "failed"}

\* ------------------------------------------------------------ properties
IsPrefix(a, b) == Len(a) <= Len(b) /\ a = SubSeq(b, 1, Len(a))

\* r takes the step from the lookup to its HTTP response in this transition
Handles(r) == post[r].pc = "body" /\ post'[r].pc = "done"
\* r takes its lookup step in this transition
LooksUp(r) == post[r].pc = "idle" /\ post'[r].pc # "idle"
\* the body parses and handle_message returns for it
Dispatchable(body) ==
  /\ body.kind = "object"
  /\ \A perm \in PermsFor(body) : handle_message(body.msg, perm).kind # "raise"
\* the connections whose stream has been created and has not ended
OpenStreams == {s \in Connections : stream[s] \in {"created", "check", "wait"}}
\* GET /health is answered in this transition
AnswersHealth == health_body' # health_body
\* connection s yields a keepalive comment in this transition
TicksKeepalive(s) == emitted'[s] = Append(emitted[s], KeepaliveEvent)

\* C1: within one session the message events appear on the stream in the
\* order in which the responses were put on the session's queue: what has
\* been emitted is always an initial part of what has been enqueued.
C1_FifoDelivery ==
  \A s \in SessionIds : IsPrefix(MessagesEmitted(s), enqueued[s])

C1_Witness ==
  \E s \in SessionIds :
    /\ Len(MessagesEmitted(s)) = 2
    /\ MessagesEmitted(s)[1] # MessagesEmitted(s)[2]

\* C2: every message that has an id gets exactly one Response from
\* handle_message, carrying the same id, whatever its method and params.
C2_RequestGetsResponse ==
  (d_done /\ d_msg.id # None) => (IsResponse(d_out) /\ d_out.id = d_msg.id)

\* C3: a message without an id never produces a Response, so the intake
\* handler puts nothing on the session's queue for it.
C3_NotificationEnqueuesNothing ==
  \A r \in PostIds :
    (post[r].pc = "done" /\ post[r].body.kind = "object"
       /\ post[r].body.msg.id = None)
    => (~IsResponse(post[r].response) /\ ~post[r].queued)

\* C4: once a connection created by GET /sse has ended, by whatever exit
\* path, its session id is no longer in the session store.
C4_EndedStreamUnregistered ==
  \A s \in SessionIds :
    stream[s] \in {"closed", "abandoned"} => s \notin Registered

\* C5: a POST that is dispatched is acknowledged with 202 "Accepted", the
\* HTTP response carries no RPC result, the Response (if any) goes onto the
\* queue the request looked up and onto no other, and nothing is emitted on
\* any stream by the POST itself.
C5_AckCarriesNoResult ==
  [][\A r \in PostIds :
       Handles(r) =>
         /\ post'[r].http.rpc = NoResponse
         /\ emitted' = emitted
         /\ Dispatchable(post'[r].body) =>
              /\ post'[r].http = Http(202, "Accepted", NoResponse)
              /\ queue' =
                   IF IsResponse(post'[r].response)
                   THEN [queue EXCEPT ![post[r].message_queue] =
                           Append(@, post'[r].response)]
                   ELSE queue]_vars

C5_Witness ==
  \E r \in PostIds :
    /\ post[r].pc = "done"
    /\ post[r].http.status = 202
    /\ post[r].response.kind = "result"
    /\ post[r].message_queue \in Registered
    /\ queue[post[r].message_queue][Len(queue[post[r].message_queue])]
         = post[r].response
    /\ emitted[post[r].message_queue] = <<EndpointEvent(post[r].message_queue)>>

\* C6: a POST whose session id is not in the store is answered with 400
\* {"error": "No active session found"}; it is not dispatched, nothing is
\* enqueued and the store is unchanged.
C6_UnknownSessionIs400 ==
  [][\A r \in PostIds :
       (LooksUp(r) /\ post'[r].sessionId \notin Registered) =>
         /\ post'[r].pc = "done"
         /\ post'[r].http = Http(400, "No active session found", NoResponse)
         /\ post'[r].response = NoResponse
         /\ ~post'[r].queued
         /\ queue' = queue
         /\ enqueued' = enqueued
         /\ active_sessions' = active_sessions]_vars

C6_Witness ==
  \E r \in PostIds, s \in SessionIds :
    /\ post[r].pc = "done"
    /\ post[r].http.status = 400
    /\ post[r].sessionId = s
    /\ stream[s] = "closed"

\* C8: a keepalive tick leaves the connection in its streaming loop, the
\* session in the store and every queue as it was.
C8_KeepaliveKeepsSession ==
  [][\A s \in SessionIds :
       TicksKeepalive(s) =>
         /\ Streaming(s)'
         /\ s \in Registered'
         /\ active_sessions' = active_sessions
         /\ queue' = queue]_vars

C8_Witness ==
  \E s \in SessionIds :
    /\ Keepalives(s) > 0
    /\ ~disconnected[s]
    /\ Streaming(s)
    /\ s \in Registered

C10_LateEnqueueIsSoft ==
  /\ [][\A r \in PostIds :
          (Handles(r) /\ post[r].message_queue \notin Registered
             /\ Dispatchable(post'[r].body)) =>
            /\ post'[r].http.status = 202
            /\ active_sessions' = active_sessions
            /\ emitted' = emitted
            /\ \A t \in SessionIds :
                 t # post[r].message_queue => queue'[t] = queue[t]]_vars
  /\ [][\A s \in SessionIds :
          stream[s] = "closed" =>
            /\ stream'[s] = "closed"
            /\ emitted'[s] = emitted[s]
            /\ s \notin Registered']_vars

C10_Witness ==
  \E r \in PostIds :
    /\ post[r].pc = "done"
    /\ post[r].queued
    /\ post[r].http.status = 202
    /\ stream[post[r].message_queue] = "closed"
    /\ post[r].message_queue \notin Registered
    /\ queue[post[r].message_queue] # <<>>

\* C7: under fair scheduling of the stream loop, the k-th Response put on
\* the queue of session s is eventually emitted as a message event on its
\* stream, unless the client of s disconnects.
C7_EnqueuedIsDelivered ==
  \A s \in FairSessions : \A k \in 1..MaxPosts :
    (Len(enqueued[s]) >= k) ~> (Len(MessagesEmitted(s)) >= k \/ disconnected[s])

C7_Witness ==
  \E s \in FairSessions :
    /\ ~disconnected[s]
    /\ Len(enqueued[s]) = 2
    /\ MessagesEmitted(s) = enqueued[s]

\* C11: a connection whose generator has not run has emitted nothing; one
\* whose generator has run has emitted exactly one endpoint event, as its
\* first event, carrying the message path and the connection's own session
\* id; every message event and keepalive comes after it.
C11_EndpointEventFirst ==
  \A s \in SessionIds :
    /\ stream[s] \in {"none", "created", "abandoned"} => emitted[s] = <<>>
    /\ stream[s] \in {"check", "wait", "closed"} =>
         /\ Len(emitted[s]) >= 1
         /\ emitted[s][1].event = "endpoint"
         /\ emitted[s][1].path = MessagePath
         /\ emitted[s][1].sessionId = s
         /\ \A i \in 2..Len(emitted[s]) :
              emitted[s][i].event \in {"message", "keepalive"}

C11_Witness ==
  \E s \in SessionIds :
    /\ Len(emitted[s]) = 2
    /\ emitted[s][1].event = "endpoint"
    /\ emitted[s][2].event = "message"
    /\ emitted[s][2].data = enqueued[s][1]
    /\ Len(enqueued[s]) = 2

\* C12: destroying a session id leaves the store without that id and with
\* every other entry as it was, and destroying it again (the id is gone by
\* then) raises nothing and leaves the store as the first destruction left
\* it.
C12_DestroyIdempotent ==
  /\ ~destroy_raised
  /\ destroy_calls >= 1 =>
       /\ DOMAIN active_sessions = DOMAIN store_before \ {destroyed_id}
       /\ \A t \in DOMAIN active_sessions :
            active_sessions[t] = store_before[t]

C12_Witness ==
  /\ destroy_calls = 2
  /\ destroyed_id \in DOMAIN store_before
  /\ destroyed_id \notin DOMAIN active_sessions
  /\ Cardinality(DOMAIN active_sessions) >= 2

\* C13: an entry leaves the store only in the step in which the stream of
\* that very session closes, and that step changes no other session's
\* entry, queue or stream; a step of an intake request, whatever its
\* outcome, changes neither the store nor the position of any stream.
C13_OnlyOwnStreamRemoves ==
  [][/\ \A s \in Connections :
          (s \in Registered /\ s \notin Registered') =>
            /\ Streaming(s)
            /\ stream'[s] = "closed"
            /\ post' = post
            /\ \A t \in Connections \ {s} :
                 /\ t \in Registered <=> t \in Registered'
                 /\ t \in Registered => active_sessions'[t] = active_sessions[t]
                 /\ queue'[t] = queue[t]
                 /\ stream'[t] = stream[t]
     /\ post' # post =>
          /\ active_sessions' = active_sessions
          /\ stream' = stream]_vars

C13_Witness ==
  \E r \in PostIds, s \in PairSessions, t \in PairSessions :
    /\ s # t
    /\ stream[s] = "closed"
    /\ s \notin Registered
    /\ t \in Registered
    /\ Streaming(t)
    /\ queue[t] # <<>>
    /\ post[r].pc = "done"
    /\ post[r].http.status = 500
    /\ post[r].message_queue = t

\* C14: the step that handles a malformed body answers 500 with the error
\* and changes nothing else: nothing is put on any queue, the store and
\* every stream stay as they were; and a request handled after a request
\* has failed is dispatched as ever: 202, its Response appended to the
\* queue it looked up.
C14_MalformedIs500Scoped ==
  [][\A r \in PostIds :
       /\ (Handles(r) /\ post'[r].body.kind = "malformed") =>
            /\ post'[r].http = Http(500, "error", NoResponse)
            /\ ~post'[r].queued
            /\ queue' = queue
            /\ enqueued' = enqueued
            /\ active_sessions' = active_sessions
            /\ stream' = stream
            /\ emitted' = emitted
       /\ (Handles(r) /\ Dispatchable(post'[r].body)
             /\ \E q \in PostIds : post[q].pc = "failed") =>
            /\ post'[r].http = Http(202, "Accepted", NoResponse)
            /\ IsResponse(post'[r].response) =>
                 queue'[post[r].message_queue] =
                   Append(queue[post[r].message_queue], post'[r].response)]_vars

C14_Witness ==
  \E q \in PostIds, r \in PostIds :
    /\ q < r
    /\ post[q].pc = "failed"
    /\ post[r].pc = "done"
    /\ post[r].http.status = 202
    /\ post[r].queued
    /\ post[r].message_queue \in Registered
    /\ Streaming(post[r].message_queue)
    /\ queue[post[r].message_queue] = <<post[r].response>>

\* C15: a POST to a looked-up session whose message has a method outside
\* the five known ones is acknowledged with 202, and exactly one Response
\* is put on the queue it looked up: an error Response of code -32601 that
\* names the method and carries the message's id.
C15_UnknownMethodIsRpcError ==
  [][\A r \in PostIds :
       (/\ Handles(r)
        /\ post'[r].body.kind = "object"
        /\ post'[r].body.msg.method \notin
             {"initialize", "notifications/initialized", "tools/list",
              "tools/call", "ping"}) =>
         /\ post'[r].http = Http(202, "Accepted", NoResponse)
         /\ post'[r].response.kind = "error"
         /\ post'[r].response.code = -32601
         /\ post'[r].response.method = post'[r].body.msg.method
         /\ post'[r].response.id = post'[r].body.msg.id
         /\ queue' = [queue EXCEPT ![post[r].message_queue] =
                        Append(@, post'[r].response)]
         /\ enqueued' = [enqueued EXCEPT ![post[r].message_queue] =
                           Append(@, post'[r].response)]]_vars

C15_Witness ==
  \E r \in PostIds :
    /\ post[r].pc = "done"
    /\ post[r].body.msg.method = "foo/bar"
    /\ post[r].http.status = 202
    /\ post[r].response.kind = "error"
    /\ post[r].response.code = -32601
    /\ post[r].message_queue \in Registered
    /\ Len(queue[post[r].message_queue]) = 2
    /\ queue[post[r].message_queue][2] = post[r].response
    /\ queue[post[r].message_queue][1].kind = "result"

\* C16: handle_message answers every tools/call that names a tool which is
\* not in the catalog with a result (not an error object) whose content has
\* the error flag and reads "Unknown tool: <name>", and no result for a name
\* of the catalog has the error flag.
C16_UnknownToolIsFlaggedResult ==
  (/\ d_done
   /\ d_msg.method = "tools/call"
   /\ d_msg.params.pkind = "dict"
   /\ d_msg.params.name # None) =>
    IF d_msg.params.name \in
         {"reverse_text", "uppercase_text", "lowercase_text",
          "word_count", "character_count", "shuffle_text"}
    THEN d_out.kind = "result" => ~d_out.content.isError
    ELSE /\ d_out.kind = "result"
         /\ d_out.content.isError
         /\ d_out.content.prefix = "Unknown tool: "
         /\ d_out.content.suffix = d_msg.params.name

\* C17: whatever the method of a message (one of the five, another string,
\* absent), handle_message returns a Response or None and never raises, and
\* a method outside the five gets the error Response of the else branch.
C17_DispatcherTotal ==
  d_done =>
    /\ d_out.kind \in {"result", "error", "none"}
    /\ d_msg.method \notin
         {"initialize", "notifications/initialized", "tools/list",
          "tools/call", "ping"} =>
         /\ d_out.kind = "error"
         /\ d_out.code = -32601
         /\ d_out.method = d_msg.method

\* C18: once the client of a connection has gone away, no further message
\* event is emitted on that connection, also when a Response is put on its
\* queue after the disconnect.
C18_NoMessageAfterDisconnect ==
  [][\A s \in SessionIds :
       disconnected[s] =>
         Len(Messages_of(emitted'[s])) = Len(Messages_of(emitted[s]))]_vars

\* C19: at every moment and for every session, the message events emitted
\* on its stream followed by what is still on its queue are exactly the
\* Responses that the requests which looked this session up have put on its
\* queue, in that order: nothing is emitted twice, nothing that was put for
\* another session is emitted, nothing is emitted that was not put.
C19_EmittedPlusQueuedIsEnqueued ==
  \A s \in Connections :
    /\ MessagesEmitted(s) \o queue[s] = enqueued[s]
    /\ Len(MessagesEmitted(s)) + Len(queue[s]) = Len(enqueued[s])

C19_Witness ==
  \E s \in PairSessions, t \in PairSessions :
    /\ s # t
    /\ Len(MessagesEmitted(s)) = 1
    /\ Len(MessagesEmitted(t)) = 1
    /\ MessagesEmitted(s) # MessagesEmitted(t)
    /\ enqueued[s] = MessagesEmitted(s)
    /\ enqueued[t] = MessagesEmitted(t)

\* C20: at every moment the session ids in the store are exactly those of
\* the connections whose stream has been created and has not ended, and the
\* activeSessions count that GET /health reports is the number of those
\* streams; answering GET /health changes neither the store nor any queue.
C20_StoreIsOpenStreams ==
  /\ [](/\ Registered = OpenStreams
        /\ health(active_sessions).activeSessions = Cardinality(OpenStreams))
  /\ [][AnswersHealth =>
          /\ health_body'.activeSessions = Cardinality(OpenStreams)
          /\ active_sessions' = active_sessions
          /\ queue' = queue]_vars
====
